---------------------------- MODULE Spec2Model ----------------------------
(***************************************************************************)
(* Bouncing-ball physics core (package skunk): Vector2D, the force         *)
(* functions, the collision engine, the Ball entity and the Simulation     *)
(* orchestrator.                                                           *)
(*                                                                         *)
(* Numbers.  The program computes in float64.  Here a number is an exact   *)
(* rational [num, den] in lowest terms, and the arithmetic of the pure     *)
(* functions (vector2d.py, forces.py, collision.py, ball.py) is exact.     *)
(* Two operations are not closed over the rationals and round:             *)
(*   - sqrt(q) is exact when q is the square of a rational and is          *)
(*     otherwise rounded down to a multiple of 1/Grid;                     *)
(*   - SURFACE_FRICTION ** sqrt(mass) is linearised (see friction_factor). *)
(* A value written to a field of a Body held by the Simulation is rounded  *)
(* to the nearest multiple of 1/Grid (Fl), which keeps the state finite.   *)
(***************************************************************************)
EXTENDS Integers, Sequences, FiniteSets, TLC

VARIABLES
    balls,              \* Simulation.balls: sequence of Ball records
    gravity_on,         \* Simulation.gravity_on
    paused,             \* Simulation.paused
    wall_glow_timer,    \* Simulation.wall_glow_timer (frames remaining)
    shockwave_effects,  \* Simulation.shockwave_effects: sequence of [origin, age]
    initial_balls,      \* Simulation._initial_balls: snapshots taken at spawn
    last,               \* the last public call: its name, arguments and result
    frames,             \* number of unpaused update() calls since construction or reset
    made,               \* frame stamp of every shockwave applied since the last reset
    ops,                \* number of state-changing user calls since construction or reset
    call                \* one call of a function on its own: arguments, then result

vars == <<balls, gravity_on, paused, wall_glow_timer, shockwave_effects,
          initial_balls, last, frames, made, ops, call>>

simvars == <<balls, gravity_on, paused, wall_glow_timer, shockwave_effects,
             initial_balls, last, frames, made, ops>>

-----------------------------------------------------------------------------
(* Exact rational arithmetic standing for float64.                         *)

\* Precision of a stored value: multiples of 1/Grid of a pixel.
Grid == 4

Abs(i) == IF i < 0 THEN -i ELSE i

RECURSIVE GCD(_, _)
GCD(a, b) == IF b = 0 THEN a ELSE GCD(b, a % b)

\* The rational n/d (d # 0) in lowest terms with a positive denominator.
Rat(n, d) ==
    LET s == IF d < 0 THEN -1 ELSE 1
        g == GCD(Abs(n), Abs(d))
    IN  [num |-> s * (n \div g), den |-> s * (d \div g)]

R(i) == [num |-> i, den |-> 1]

RNeg(a) == [num |-> -a.num, den |-> a.den]

RAdd(a, b) ==
    LET g == GCD(a.den, b.den)
        l == (a.den \div g) * b.den
    IN  Rat(a.num * (l \div a.den) + b.num * (l \div b.den), l)

RSub(a, b) == RAdd(a, RNeg(b))

\* Cross-reduced product: the factors are the lowest-terms result's own.
RMul(a, b) ==
    LET g1 == GCD(Abs(a.num), b.den)
        g2 == GCD(Abs(b.num), a.den)
    IN  IF a.num = 0 \/ b.num = 0 THEN R(0)
        ELSE [num |-> (a.num \div g1) * (b.num \div g2),
              den |-> (a.den \div g2) * (b.den \div g1)]

\* a / b for b # 0 (the callers modelled here never divide by zero).
RDiv(a, b) ==
    RMul(a, IF b.num < 0 THEN [num |-> -b.den, den |-> -b.num]
                         ELSE [num |-> b.den, den |-> b.num])


\* Largest k in lo..hi with k*k <= x (bisection).
RECURSIVE ISqrtIn(_, _, _)
ISqrtIn(x, lo, hi) ==
    IF lo >= hi THEN lo
    ELSE LET mid == (lo + hi + 1) \div 2
         IN  IF mid * mid <= x THEN ISqrtIn(x, mid, hi)
                               ELSE ISqrtIn(x, lo, mid - 1)

ISqrt(x) == ISqrtIn(x, 0, IF x < 46340 THEN x ELSE 46340)

IsSquare(x) == ISqrt(x) * ISqrt(x) = x

\* math.sqrt / math.hypot of a non-negative number: exact on squares of
\* rationals, otherwise rounded down to a multiple of 1/Grid.
RSqrt(q) ==
    IF IsSquare(q.num) /\ IsSquare(q.den)
    THEN [num |-> ISqrt(q.num), den |-> ISqrt(q.den)]
    ELSE LET ip  == q.num \div q.den
             rem == q.num - ip * q.den
             lo  == Rat(ISqrt(ip * Grid * Grid + (rem * Grid * Grid) \div q.den), Grid)
         IN  [num |-> lo.num, den |-> lo.den, rad |-> q]

\* A rounded square root keeps its radicand (field rad), so that comparing it
\* decides as the unrounded value would: sqrt(r) < b iff b > 0 and r < b*b.
IsRoot(a) == "rad" \in DOMAIN a

Plain(a) == [num |-> a.num, den |-> a.den]

Sq(a) == RMul(Plain(a), Plain(a))

Radicand(a) == IF IsRoot(a) THEN a.rad ELSE Sq(a)

RLt(a, b) ==
    IF IsRoot(a) \/ IsRoot(b)
    THEN IF a.num < 0 THEN TRUE
         ELSE IF b.num < 0 THEN FALSE
         ELSE RSub(Radicand(a), Radicand(b)).num < 0
    ELSE RSub(a, b).num < 0
RLe(a, b) == ~RLt(b, a)
RGt(a, b) == RLt(b, a)
RGe(a, b) == ~RLt(a, b)
RMax(a, b) == IF RLt(a, b) THEN b ELSE a

\* Rounding of a value stored in a Body: the nearest multiple of 1/Grid.
Fl(q) ==
    LET ip  == q.num \div q.den
        rem == q.num - ip * q.den
    IN  Rat(ip * Grid + (2 * rem * Grid + q.den) \div (2 * q.den), Grid)

-----------------------------------------------------------------------------
(* skunk/physics/vector2d.py                                               *)

Vector2D(x, y) == [x |-> x, y |-> y]

\* A vector with whole-pixel components.
V(i, j) == Vector2D(R(i), R(j))

Vadd(a, b) == Vector2D(RAdd(a.x, b.x), RAdd(a.y, b.y))

Vsub(a, b) == Vector2D(RSub(a.x, b.x), RSub(a.y, b.y))

Vmul(a, scalar) == Vector2D(RMul(a.x, scalar), RMul(a.y, scalar))

\* The division that answers a zero scalar with the operand itself.
truediv_lenient(a, scalar) ==
    IF scalar = R(0)
    THEN [raised |-> "", value |-> a]
    ELSE [raised |-> "", value |-> Vector2D(RDiv(a.x, scalar), RDiv(a.y, scalar))]

\* Vector2D.__truediv__: the float division raises ZeroDivisionError on a
\* zero scalar, before any Vector2D is built.
truediv(a, scalar) ==
    IF scalar = R(0)
    THEN [raised |-> "ZeroDivisionError"]
    ELSE [raised |-> "", value |-> Vector2D(RDiv(a.x, scalar), RDiv(a.y, scalar))]

magnitude_sq(a) == RAdd(RMul(a.x, a.x), RMul(a.y, a.y))

magnitude(a) == RSqrt(magnitude_sq(a))

normalized(a) ==
    LET mag == magnitude(a)
    IN  IF mag = R(0) THEN Vector2D(R(0), R(0))
        ELSE Vector2D(RDiv(a.x, mag), RDiv(a.y, mag))

dot(a, b) == RAdd(RMul(a.x, b.x), RMul(a.y, b.y))

distance_to(a, b) == magnitude(Vsub(a, b))

distance_sq_to(a, b) == magnitude_sq(Vsub(a, b))

clamped(a, max_magnitude) ==
    IF RLe(magnitude_sq(a), RMul(max_magnitude, max_magnitude)) THEN a
    ELSE Vmul(normalized(a), max_magnitude)

\* A vector as stored in a Body: both components rounded.
FlV(a) == Vector2D(Fl(a.x), Fl(a.y))

-----------------------------------------------------------------------------
(* skunk/constants.py                                                      *)

WINDOW_WIDTH == 800
WINDOW_HEIGHT == 450
STATUS_BAR_HEIGHT == 30
PLAY_AREA_HEIGHT == WINDOW_HEIGHT - STATUS_BAR_HEIGHT
MIN_RADIUS == 12
MAX_RADIUS == 30
MIN_SPEED == Rat(1, 2)
MAX_SPEED == R(3)
MASS_DENSITY == R(1)
SURFACE_FRICTION == Rat(9999, 10000)
GRAVITY_ACCEL == Rat(15, 100)
BOUNCE_RESTITUTION == Rat(85, 100)
FLOOR_FRICTION == Rat(99, 100)
AIR_RESISTANCE == Rat(9995, 10000)
LEFT_WALL_BOOST == Rat(112, 100)
MAX_SPEED_CAP == R(5)
SHOCKWAVE_STRENGTH == R(800)
SHOCKWAVE_RADIUS == R(400)
COLOR_BALL_LEFT == "COLOR_BALL_LEFT"
COLOR_BALL_OTHER == "COLOR_BALL_OTHER"

\* math.pi, to three digits.
Pi == Rat(22, 7)

-----------------------------------------------------------------------------
(* skunk/physics/collision.py                                              *)

\* The test taking touching for colliding.
detect_collision_touching(pos_a, radius_a, pos_b, radius_b) ==
    LET min_dist == RAdd(radius_a, radius_b)
    IN  RLe(distance_sq_to(pos_a, pos_b), RMul(min_dist, min_dist))

detect_collision(pos_a, radius_a, pos_b, radius_b) ==
    LET min_dist == RAdd(radius_a, radius_b)
    IN  RLt(distance_sq_to(pos_a, pos_b), RMul(min_dist, min_dist))

\* The position correction of resolve_collision: both centres pushed apart
\* along n when they overlap.
\* The position correction without the half pixel of margin.
separate_no_margin(pos_a, pos_b, n, dist, radius_a, radius_b) ==
    LET overlap == RSub(RAdd(radius_a, radius_b), dist)
        correction == Vmul(n, RDiv(overlap, R(2)))
    IN  IF RGt(overlap, R(0))
        THEN [pos_a |-> Vadd(pos_a, correction), pos_b |-> Vsub(pos_b, correction)]
        ELSE [pos_a |-> pos_a, pos_b |-> pos_b]

separate(pos_a, pos_b, n, dist, radius_a, radius_b) ==
    LET overlap    == RSub(RAdd(radius_a, radius_b), dist)
        correction == Vmul(n, RAdd(RDiv(overlap, R(2)), Rat(1, 2)))
    IN  IF RGt(overlap, R(0))
        THEN [pos_a |-> Vadd(pos_a, correction), pos_b |-> Vsub(pos_b, correction)]
        ELSE [pos_a |-> pos_a, pos_b |-> pos_b]

\* The resolution with the impulse vel_along_normal / total_mass, half of the
\* elastic one.
resolve_collision_half(pos_a, vel_a, mass_a, radius_a, pos_b, vel_b, mass_b, radius_b) ==
    LET diff   == Vsub(pos_a, pos_b)
        zero   == magnitude(diff) = R(0)
        normal == IF zero THEN Vector2D(R(1), R(0)) ELSE diff
        dist   == IF zero THEN R(1) ELSE magnitude(diff)
        n      == normalized(normal)
        rel_vel == Vsub(vel_a, vel_b)
        vel_along_normal == dot(rel_vel, n)
        sep    == separate(pos_a, pos_b, n, dist, radius_a, radius_b)
        total_mass == RAdd(mass_a, mass_b)
        impulse == RDiv(vel_along_normal, total_mass)
    IN  IF RGt(vel_along_normal, R(0))
        THEN [vel_a |-> vel_a, vel_b |-> vel_b,
              pos_a |-> sep.pos_a, pos_b |-> sep.pos_b]
        ELSE [vel_a |-> Vsub(vel_a, Vmul(n, RMul(impulse, mass_b))),
              vel_b |-> Vadd(vel_b, Vmul(n, RMul(impulse, mass_a))),
              pos_a |-> sep.pos_a, pos_b |-> sep.pos_b]

\* The resolution with no substitute for a zero distance.
resolve_collision_no_fallback(pos_a, vel_a, mass_a, radius_a, pos_b, vel_b, mass_b, radius_b) ==
    LET diff   == Vsub(pos_a, pos_b)
        zero   == FALSE
        normal == IF zero THEN Vector2D(R(1), R(0)) ELSE diff
        dist   == IF zero THEN R(1) ELSE magnitude(diff)
        n      == normalized(normal)
        rel_vel == Vsub(vel_a, vel_b)
        vel_along_normal == dot(rel_vel, n)
        sep    == separate(pos_a, pos_b, n, dist, radius_a, radius_b)
        total_mass == RAdd(mass_a, mass_b)
        impulse == RDiv(RMul(R(2), vel_along_normal), total_mass)
    IN  IF RGt(vel_along_normal, R(0))
        THEN [vel_a |-> vel_a, vel_b |-> vel_b,
              pos_a |-> sep.pos_a, pos_b |-> sep.pos_b]
        ELSE [vel_a |-> Vsub(vel_a, Vmul(n, RMul(impulse, mass_b))),
              vel_b |-> Vadd(vel_b, Vmul(n, RMul(impulse, mass_a))),
              pos_a |-> sep.pos_a, pos_b |-> sep.pos_b]

\* The resolution that returns separating bodies where they are.
resolve_collision_no_fix(pos_a, vel_a, mass_a, radius_a, pos_b, vel_b, mass_b, radius_b) ==
    LET diff   == Vsub(pos_a, pos_b)
        zero   == magnitude(diff) = R(0)
        normal == IF zero THEN Vector2D(R(1), R(0)) ELSE diff
        dist   == IF zero THEN R(1) ELSE magnitude(diff)
        n      == normalized(normal)
        rel_vel == Vsub(vel_a, vel_b)
        vel_along_normal == dot(rel_vel, n)
        sep    == separate(pos_a, pos_b, n, dist, radius_a, radius_b)
        total_mass == RAdd(mass_a, mass_b)
        impulse == RDiv(RMul(R(2), vel_along_normal), total_mass)
    IN  IF RGt(vel_along_normal, R(0))
        THEN [vel_a |-> vel_a, vel_b |-> vel_b,
              pos_a |-> pos_a, pos_b |-> pos_b]
        ELSE [vel_a |-> Vsub(vel_a, Vmul(n, RMul(impulse, mass_b))),
              vel_b |-> Vadd(vel_b, Vmul(n, RMul(impulse, mass_a))),
              pos_a |-> sep.pos_a, pos_b |-> sep.pos_b]

\* resolve_collision
resolve_collision(pos_a, vel_a, mass_a, radius_a, pos_b, vel_b, mass_b, radius_b) ==
    LET diff   == Vsub(pos_a, pos_b)
        zero   == magnitude(diff) = R(0)
        normal == IF zero THEN Vector2D(R(1), R(0)) ELSE diff
        dist   == IF zero THEN R(1) ELSE magnitude(diff)
        n      == normalized(normal)
        rel_vel == Vsub(vel_a, vel_b)
        vel_along_normal == dot(rel_vel, n)
        sep    == separate(pos_a, pos_b, n, dist, radius_a, radius_b)
        total_mass == RAdd(mass_a, mass_b)
        impulse == RDiv(RMul(R(2), vel_along_normal), total_mass)
    IN  IF RGt(vel_along_normal, R(0))
        THEN [vel_a |-> vel_a, vel_b |-> vel_b,
              pos_a |-> sep.pos_a, pos_b |-> sep.pos_b]
        ELSE [vel_a |-> Vsub(vel_a, Vmul(n, RMul(impulse, mass_b))),
              vel_b |-> Vadd(vel_b, Vmul(n, RMul(impulse, mass_a))),
              pos_a |-> sep.pos_a, pos_b |-> sep.pos_b]

-----------------------------------------------------------------------------
(* skunk/physics/forces.py                                                 *)

\* SURFACE_FRICTION ** sqrt(mass), linearised: (1 - e)^k ~ 1 - k*e for the
\* small e = 1 - SURFACE_FRICTION of the program.
friction_factor(mass) ==
    RSub(R(1), RMul(RSub(R(1), SURFACE_FRICTION), RSqrt(mass)))

apply_surface_friction(velocity, mass) == Vmul(velocity, friction_factor(mass))

apply_gravity(velocity) == Vadd(velocity, Vector2D(R(0), GRAVITY_ACCEL))

apply_air_resistance(velocity) == Vmul(velocity, AIR_RESISTANCE)

apply_floor_friction(velocity) ==
    Vector2D(RMul(velocity.x, FLOOR_FRICTION), velocity.y)

apply_bounce_restitution(velocity) ==
    Vector2D(velocity.x, RMul(velocity.y, BOUNCE_RESTITUTION))

compute_wall_boost(velocity) ==
    IF RGe(magnitude(velocity), MAX_SPEED_CAP)
    THEN clamped(velocity, MAX_SPEED_CAP)
    ELSE clamped(Vector2D(RMul(velocity.x, LEFT_WALL_BOOST), velocity.y),
                 MAX_SPEED_CAP)

compute_shockwave_impulse(ball_pos, shockwave_origin) ==
    LET delta == Vsub(ball_pos, shockwave_origin)
        dist  == magnitude(delta)
        safe_dist == RMax(dist, R(1))
        strength  == RDiv(SHOCKWAVE_STRENGTH, safe_dist)
    IN  IF RGt(dist, SHOCKWAVE_RADIUS) THEN Vector2D(R(0), R(0))
        ELSE Vmul(normalized(delta), strength)

-----------------------------------------------------------------------------
(* skunk/model/ball.py                                                     *)

\* Ball.__init__; id stands for the identity of the Python object.
Ball(id, position, velocity, radius, color) ==
    [id |-> id, position |-> position, velocity |-> velocity,
     radius |-> radius,
     mass |-> RMul(RMul(RMul(MASS_DENSITY, Pi), radius), radius),
     color |-> color]

kinetic_energy(b) == RMul(RMul(Rat(1, 2), b.mass), magnitude_sq(b.velocity))

momentum(b) == Vmul(b.velocity, b.mass)

update_position(b) == [b EXCEPT !.position = Vadd(b.position, b.velocity)]

apply_impulse(b, impulse) == [b EXCEPT !.velocity = Vadd(b.velocity, impulse)]

clamp_speed(b, max_speed) == [b EXCEPT !.velocity = clamped(b.velocity, max_speed)]

\* The bounce that flips the velocity and leaves the position where it is.
handle_wall_bounce_unclamped(b, width, height) ==
    LET px == b.position.x
        py == b.position.y
        vx == b.velocity.x
        vy == b.velocity.y
        left   == RLe(RSub(px, b.radius), R(0)) /\ RLt(vx, R(0))
        right  == ~left /\ RGe(RAdd(px, b.radius), width) /\ RGt(vx, R(0))
        top    == RLe(RSub(py, b.radius), R(0)) /\ RLt(vy, R(0))
        bottom == ~top /\ RGe(RAdd(py, b.radius), height) /\ RGt(vy, R(0))
        vx1 == IF left \/ right THEN RNeg(vx) ELSE vx
        vy1 == IF top \/ bottom THEN RNeg(vy) ELSE vy
    IN  [ball |-> [b EXCEPT !.velocity = Vector2D(vx1, vy1)],
         hit_left |-> left]

\* Ball.handle_wall_bounce
handle_wall_bounce(b, width, height) ==
    LET px == b.position.x
        py == b.position.y
        vx == b.velocity.x
        vy == b.velocity.y
        left   == RLe(RSub(px, b.radius), R(0)) /\ RLt(vx, R(0))
        right  == ~left /\ RGe(RAdd(px, b.radius), width) /\ RGt(vx, R(0))
        top    == RLe(RSub(py, b.radius), R(0)) /\ RLt(vy, R(0))
        bottom == ~top /\ RGe(RAdd(py, b.radius), height) /\ RGt(vy, R(0))
        vx1 == IF left \/ right THEN RNeg(vx) ELSE vx
        px1 == IF left THEN b.radius
               ELSE IF right THEN RSub(width, b.radius) ELSE px
        vy1 == IF top \/ bottom THEN RNeg(vy) ELSE vy
        py1 == IF top THEN b.radius
               ELSE IF bottom THEN RSub(height, b.radius) ELSE py
    IN  [ball |-> [b EXCEPT !.position = Vector2D(px1, py1),
                            !.velocity = Vector2D(vx1, vy1)],
         hit_left |-> left]

\* The gravity-mode bounce that takes any ball down at the floor for a hit.
handle_wall_bounce_gravity_resting(b, width, height) ==
    LET px == b.position.x
        py == b.position.y
        vx == b.velocity.x
        vy == b.velocity.y
        left   == RLe(RSub(px, b.radius), R(0)) /\ RLt(vx, R(0))
        right  == ~left /\ RGe(RAdd(px, b.radius), width) /\ RGt(vx, R(0))
        top    == RLe(RSub(py, b.radius), R(0)) /\ RLt(vy, R(0))
        floor  == ~top /\ RGe(RAdd(py, b.radius), height)
        vx1 == IF left \/ right THEN RNeg(vx) ELSE vx
        px1 == IF left THEN b.radius
               ELSE IF right THEN RSub(width, b.radius) ELSE px
        vy1 == IF top \/ floor THEN RNeg(vy) ELSE vy
        py1 == IF top THEN b.radius
               ELSE IF floor THEN RSub(height, b.radius) ELSE py
    IN  [ball |-> [b EXCEPT !.position = Vector2D(px1, py1),
                            !.velocity = Vector2D(vx1, vy1)],
         hit_left |-> left, hit_floor |-> floor]

\* Ball.handle_wall_bounce_gravity: the same bounce, with the floor flag.
handle_wall_bounce_gravity(b, width, height) ==
    LET px == b.position.x
        py == b.position.y
        vx == b.velocity.x
        vy == b.velocity.y
        left   == RLe(RSub(px, b.radius), R(0)) /\ RLt(vx, R(0))
        right  == ~left /\ RGe(RAdd(px, b.radius), width) /\ RGt(vx, R(0))
        top    == RLe(RSub(py, b.radius), R(0)) /\ RLt(vy, R(0))
        floor  == ~top /\ RGe(RAdd(py, b.radius), height) /\ RGt(vy, R(0))
        vx1 == IF left \/ right THEN RNeg(vx) ELSE vx
        px1 == IF left THEN b.radius
               ELSE IF right THEN RSub(width, b.radius) ELSE px
        vy1 == IF top \/ floor THEN RNeg(vy) ELSE vy
        py1 == IF top THEN b.radius
               ELSE IF floor THEN RSub(height, b.radius) ELSE py
    IN  [ball |-> [b EXCEPT !.position = Vector2D(px1, py1),
                            !.velocity = Vector2D(vx1, vy1)],
         hit_left |-> left, hit_floor |-> floor]

\* velocity=None of spawn_ball and create_random.
None == [none |-> TRUE]

\* The factory that limits an explicit velocity to the speed cap.
create_random_clamped(id, position, color, velocity, rnd) ==
    Ball(id, position,
         IF velocity = None THEN rnd.velocity
         ELSE clamped(velocity, MAX_SPEED_CAP),
         rnd.radius, color)

\* Ball.create_random; rnd holds the draws of random.uniform: the radius
\* and the velocity built from the random angle and speed.
create_random(id, position, color, velocity, rnd) ==
    Ball(id, position,
         IF velocity = None THEN rnd.velocity ELSE velocity,
         rnd.radius, color)

-----------------------------------------------------------------------------
(* skunk/model/simulation.py                                               *)

WALL_GLOW_DURATION == 30
SHOCKWAVE_VISUAL_DURATION == 20

\* A Body as the Simulation holds it: position and velocity rounded.
Store(b) == [b EXCEPT !.position = FlV(b.position), !.velocity = FlV(b.velocity)]

Ids(bs) == {bs[i].id : i \in 1..Len(bs)}

\* The identity of a newly allocated Ball: one no live ball has.
NewId(bs) == CHOOSE i \in 1..(Len(bs) + 1) : i \notin Ids(bs)

\* spawn_ball, first loop: the conservative check with the average radius.
pre_check_rejects(bs, position) ==
    LET test_radius == RDiv(R(MIN_RADIUS + MAX_RADIUS), R(2))
    IN  \E i \in 1..Len(bs) :
            RLt(distance_to(position, bs[i].position),
                RAdd(test_radius, bs[i].radius))

\* The re-check taking touching for overlapping.
re_check_rejects_touching(bs, position, radius) ==
    \E i \in 1..Len(bs) :
        RLe(distance_to(position, bs[i].position), RAdd(radius, bs[i].radius))

\* The re-check made with the average radius again, not the drawn one.
re_check_rejects_average(bs, position, radius) ==
    \E i \in 1..Len(bs) :
        RLt(distance_to(position, bs[i].position),
            RAdd(RDiv(R(MIN_RADIUS + MAX_RADIUS), R(2)), bs[i].radius))

\* spawn_ball, second loop: the check with the radius actually drawn.
re_check_rejects(bs, position, radius) ==
    \E i \in 1..Len(bs) :
        RLt(distance_to(position, bs[i].position), RAdd(radius, bs[i].radius))

spawn_ball(position, color, velocity, rnd) ==
    /\ UNCHANGED <<gravity_on, paused, wall_glow_timer, shockwave_effects,
                   frames, made, call>>
    /\ LET ball == create_random(NewId(balls), position, color, velocity, rnd)
       IN  IF pre_check_rejects(balls, position)
           THEN /\ last' = [op |-> "spawn_ball", position |-> position,
                            color |-> color, velocity |-> velocity,
                            radius |-> R(0), ret |-> 0]
                /\ UNCHANGED <<balls, initial_balls, ops>>
           ELSE IF re_check_rejects(balls, position, ball.radius)
           THEN /\ last' = [op |-> "spawn_ball", position |-> position,
                            color |-> color, velocity |-> velocity,
                            radius |-> ball.radius, ret |-> 0]
                /\ UNCHANGED <<balls, initial_balls, ops>>
           ELSE /\ balls' = Append(balls, ball)
                /\ ops' = ops + 1
                /\ initial_balls' = Append(initial_balls,
                       <<ball.position, ball.velocity, ball.radius, ball.color>>)
                /\ last' = [op |-> "spawn_ball", position |-> position,
                            color |-> color, velocity |-> velocity,
                            radius |-> ball.radius, ret |-> ball.id]

RECURSIVE without(_, _)
without(bs, id) ==
    IF bs = <<>> THEN <<>>
    ELSE IF Head(bs).id = id THEN Tail(bs)
    ELSE <<Head(bs)>> \o without(Tail(bs), id)

\* The removal that drops the newest ball when the argument is present.
remove_ball_newest(id) ==
    /\ balls' = IF id \in Ids(balls) THEN SubSeq(balls, 1, Len(balls) - 1) ELSE balls
    /\ ops' = IF id \in Ids(balls) THEN ops + 1 ELSE ops
    /\ last' = [op |-> "remove_ball", id |-> id]
    /\ UNCHANGED <<gravity_on, paused, wall_glow_timer, shockwave_effects,
                   initial_balls, frames, made, call>>

\* remove_ball; the argument is a Ball object, named here by its identity.
remove_ball(id) ==
    /\ balls' = IF id \in Ids(balls) THEN without(balls, id) ELSE balls
    /\ ops' = IF id \in Ids(balls) THEN ops + 1 ELSE ops
    /\ last' = [op |-> "remove_ball", id |-> id]
    /\ UNCHANGED <<gravity_on, paused, wall_glow_timer, shockwave_effects,
                   initial_balls, frames, made, call>>

\* The reset that leaves the pause flag as it is.
reset_keeps_pause ==
    /\ balls' = <<>>
    /\ gravity_on' = FALSE
    /\ wall_glow_timer' = 0
    /\ shockwave_effects' = <<>>
    /\ initial_balls' = <<>>
    /\ made' = <<>>
    /\ frames' = 0
    /\ ops' = 0
    /\ last' = [op |-> "reset"]
    /\ UNCHANGED <<paused, call>>

reset ==
    /\ balls' = <<>>
    /\ gravity_on' = FALSE
    /\ paused' = FALSE
    /\ wall_glow_timer' = 0
    /\ shockwave_effects' = <<>>
    /\ initial_balls' = <<>>
    /\ made' = <<>>
    /\ frames' = 0
    /\ ops' = 0
    /\ last' = [op |-> "reset"]
    /\ UNCHANGED call

\* update, first loop body, the forces of the mode on one ball.
step_forces(b, gravity) ==
    IF gravity
    THEN LET g == [b EXCEPT !.velocity = FlV(apply_gravity(b.velocity))]
         IN  [g EXCEPT !.velocity = FlV(apply_air_resistance(g.velocity))]
    ELSE [b EXCEPT !.velocity = FlV(apply_surface_friction(b.velocity, b.mass))]

\* update, first loop body, ball.update_position().
step_move(b) == Store(update_position(b))

\* update, first loop body, the wall collisions of the mode: the ball and
\* whether it hit the left wall.
step_walls(b, gravity) ==
    IF gravity
    THEN LET wb == handle_wall_bounce_gravity(b, R(WINDOW_WIDTH), R(PLAY_AREA_HEIGHT))
             r  == [wb.ball EXCEPT !.velocity = FlV(apply_bounce_restitution(@))]
         IN  [ball |-> IF wb.hit_floor
                       THEN Store([r EXCEPT !.velocity = FlV(apply_floor_friction(@))])
                       ELSE Store(wb.ball),
              hit_left |-> wb.hit_left]
    ELSE LET wb == handle_wall_bounce(b, R(WINDOW_WIDTH), R(PLAY_AREA_HEIGHT))
         IN  [ball |-> Store(wb.ball), hit_left |-> wb.hit_left]

\* update, first loop body, the left-wall boost and the speed clamp.
step_boost(wb) ==
    [ball |-> Store(clamp_speed(
                  IF wb.hit_left
                  THEN [wb.ball EXCEPT !.velocity = FlV(compute_wall_boost(@))]
                  ELSE wb.ball,
                  MAX_SPEED_CAP)),
     hit_left |-> wb.hit_left]

\* update, first loop body: forces, integration, walls, boost, clamp of one
\* ball; the result and whether it hit the left wall.
step_ball(b, gravity) ==
    step_boost(step_walls(step_move(step_forces(b, gravity)), gravity))

\* The assignments with the two balls taking each other's place in the list.
assign_pair_swapped(bs, i, j, r) ==
    [bs EXCEPT ![i] = Store([bs[j] EXCEPT !.velocity = r.vel_b, !.position = r.pos_b]),
               ![j] = Store([bs[i] EXCEPT !.velocity = r.vel_a, !.position = r.pos_a])]

\* update, second loop body, the four assignments after resolve_collision.
assign_pair(bs, i, j, r) ==
    [bs EXCEPT ![i] = Store([@ EXCEPT !.velocity = r.vel_a, !.position = r.pos_a]),
               ![j] = Store([@ EXCEPT !.velocity = r.vel_b, !.position = r.pos_b])]

\* update, second loop body: one pair (i, j) detected and resolved in place.
collide_pair(bs, i, j) ==
    IF detect_collision(bs[i].position, bs[i].radius, bs[j].position, bs[j].radius)
    THEN assign_pair(bs, i, j,
             resolve_collision(bs[i].position, bs[i].velocity, bs[i].mass,
                               bs[i].radius,
                               bs[j].position, bs[j].velocity, bs[j].mass,
                               bs[j].radius))
    ELSE bs

\* The second loop run backwards: the pairs in reverse lexicographic order.
RECURSIVE collide_all_backwards(_, _, _)
collide_all_backwards(bs, i, j) ==
    IF i >= Len(bs) THEN bs
    ELSE IF j > Len(bs) THEN collide_all_backwards(bs, i + 1, i + 2)
    ELSE collide_pair(collide_all_backwards(bs, i, j + 1), i, j)

\* update, second loop: every pair (i, j), i < j, in lexicographic order,
\* each against the state the pairs before it left.
RECURSIVE collide_all(_, _, _)
collide_all(bs, i, j) ==
    IF i >= Len(bs) THEN bs
    ELSE IF j > Len(bs) THEN collide_all(bs, i + 1, i + 2)
    ELSE collide_all(collide_pair(bs, i, j), i, j + 1)

\* The ageing with the survival test age <= duration.
RECURSIVE age_effects_late(_)
age_effects_late(effects) ==
    IF effects = <<>> THEN <<>>
    ELSE LET e == [Head(effects) EXCEPT !.age = @ + 1]
         IN  IF e.age <= SHOCKWAVE_VISUAL_DURATION
             THEN <<e>> \o age_effects_late(Tail(effects))
             ELSE age_effects_late(Tail(effects))

\* The shockwave_effects list after one frame of ageing.
RECURSIVE age_effects(_)
age_effects(effects) ==
    IF effects = <<>> THEN <<>>
    ELSE LET e == [Head(effects) EXCEPT !.age = @ + 1]
         IN  IF e.age < SHOCKWAVE_VISUAL_DURATION
             THEN <<e>> \o age_effects(Tail(effects))
             ELSE age_effects(Tail(effects))

\* The decay with no test of the timer before the decrement.
decay_timer_unfloored(timer, hit_left) ==
    (IF hit_left THEN WALL_GLOW_DURATION ELSE timer) - 1

\* The decay stopping one frame early, at 1.
decay_timer_early(timer, hit_left) ==
    LET t == IF hit_left THEN WALL_GLOW_DURATION ELSE timer
    IN  IF t > 1 THEN t - 1 ELSE t

\* The decay run before the reset of a left-wall hit.
decay_timer_then_reset(timer, hit_left) ==
    IF hit_left THEN WALL_GLOW_DURATION
    ELSE IF timer > 0 THEN timer - 1 ELSE timer

\* The glow timer at the end of a frame: reset by a left-wall hit, then decayed.
decay_timer(timer, hit_left) ==
    LET t == IF hit_left THEN WALL_GLOW_DURATION ELSE timer
    IN  IF t > 0 THEN t - 1 ELSE t

\* update, first loop: every ball stepped, and whether any hit the left wall.
step_all(bs, gravity) ==
    [i \in 1..Len(bs) |-> step_ball(bs[i], gravity)]

moved(stepped) == [i \in 1..Len(stepped) |-> stepped[i].ball]

any_hit_left(stepped) == \E i \in 1..Len(stepped) : stepped[i].hit_left

\* update past the pause check, from the stepped balls on.
finish_update(stepped) ==
    /\ balls' = collide_all(moved(stepped), 1, 2)
    /\ wall_glow_timer' = decay_timer(wall_glow_timer, any_hit_left(stepped))
    /\ shockwave_effects' = age_effects(shockwave_effects)
    /\ frames' = frames + 1
    /\ last' = [op |-> "update", hit_left |-> any_hit_left(stepped)]
    /\ UNCHANGED <<gravity_on, paused, initial_balls, made, ops, call>>

\* The frame tick without its pause check.
update_unchecked ==
    finish_update(step_all(balls, gravity_on))

\* The end of a frame with no collision pass left to run.
finish_walls_last(stepped) ==
    /\ balls' = moved(stepped)
    /\ wall_glow_timer' = decay_timer(wall_glow_timer, any_hit_left(stepped))
    /\ shockwave_effects' = age_effects(shockwave_effects)
    /\ frames' = frames + 1
    /\ last' = [op |-> "update", hit_left |-> any_hit_left(stepped)]
    /\ UNCHANGED <<gravity_on, paused, initial_balls, made, ops, call>>

\* The first loop up to the move, and the rest of it, each over all balls.
pre_walls(bs, gravity) ==
    [i \in 1..Len(bs) |-> step_move(step_forces(bs[i], gravity))]

walls_after(bs, gravity) ==
    [i \in 1..Len(bs) |-> step_boost(step_walls(bs[i], gravity))]

\* The frame tick that handles the walls after the collision pass.
update_walls_last ==
    IF paused
    THEN /\ last' = [op |-> "update", hit_left |-> FALSE]
         /\ UNCHANGED <<balls, gravity_on, paused, wall_glow_timer,
                        shockwave_effects, initial_balls, frames, made, ops, call>>
    ELSE finish_walls_last(
             walls_after(collide_all(pre_walls(balls, gravity_on), 1, 2), gravity_on))

update ==
    IF paused
    THEN /\ last' = [op |-> "update", hit_left |-> FALSE]
         /\ UNCHANGED <<balls, gravity_on, paused, wall_glow_timer,
                        shockwave_effects, initial_balls, frames, made, ops, call>>
    ELSE finish_update(step_all(balls, gravity_on))

\* The loop body without ball.clamp_speed().
shock_ball_unclamped(b, origin) ==
    Store(apply_impulse(b, compute_shockwave_impulse(b.position, origin)))

\* apply_shockwave, loop body: impulse, then clamp, of one ball.
shock_ball(b, origin) ==
    LET k == Store(apply_impulse(b, compute_shockwave_impulse(b.position, origin)))
    IN  Store(clamp_speed(k, MAX_SPEED_CAP))

\* The shockwave that puts its effect at the front of the list.
apply_shockwave_newest_first(origin) ==
    /\ balls' = [i \in 1..Len(balls) |-> shock_ball(balls[i], origin)]
    /\ shockwave_effects' = <<[origin |-> origin, age |-> 0]>> \o shockwave_effects
    /\ made' = Append(made, frames)
    /\ ops' = ops + 1
    /\ last' = [op |-> "apply_shockwave", origin |-> origin]
    /\ UNCHANGED <<gravity_on, paused, wall_glow_timer, initial_balls, frames, call>>

apply_shockwave(origin) ==
    /\ balls' = [i \in 1..Len(balls) |-> shock_ball(balls[i], origin)]
    /\ shockwave_effects' = Append(shockwave_effects, [origin |-> origin, age |-> 0])
    /\ made' = Append(made, frames)
    /\ ops' = ops + 1
    /\ last' = [op |-> "apply_shockwave", origin |-> origin]
    /\ UNCHANGED <<gravity_on, paused, wall_glow_timer, initial_balls, frames, call>>

\* The toggle that only ever switches gravity on.
toggle_gravity_on ==
    /\ gravity_on' = TRUE
    /\ ops' = ops + 1
    /\ last' = [op |-> "toggle_gravity"]
    /\ UNCHANGED <<balls, paused, wall_glow_timer, shockwave_effects,
                   initial_balls, frames, made, call>>

toggle_gravity ==
    /\ gravity_on' = ~gravity_on
    /\ ops' = ops + 1
    /\ last' = [op |-> "toggle_gravity"]
    /\ UNCHANGED <<balls, paused, wall_glow_timer, shockwave_effects,
                   initial_balls, frames, made, call>>

toggle_pause ==
    /\ paused' = ~paused
    /\ last' = [op |-> "toggle_pause"]
    /\ UNCHANGED <<balls, gravity_on, wall_glow_timer, shockwave_effects,
                   initial_balls, frames, made, ops, call>>

\* The test of ball_at with the border of the ball left out.
under_inside(b, pos) == RLt(distance_to(pos, b.position), b.radius)

\* ball_at, the test of the loop: pos is on the ball, border included.
under(b, pos) == RLe(distance_to(pos, b.position), b.radius)

\* ball_at, the loop: the identity of the first ball under pos, 0 for None.
RECURSIVE first_under(_, _)
first_under(bs, pos) ==
    IF bs = <<>> THEN 0
    ELSE IF under(Head(bs), pos) THEN Head(bs).id
    ELSE first_under(Tail(bs), pos)

\* ball_at
ball_at(pos) ==
    /\ last' = [op |-> "ball_at", pos |-> pos, ret |-> first_under(balls, pos)]
    /\ UNCHANGED <<balls, gravity_on, paused, wall_glow_timer, shockwave_effects,
                   initial_balls, frames, made, ops, call>>

\* Simulation.__init__
SimInit ==
    /\ balls = <<>>
    /\ gravity_on = FALSE
    /\ paused = FALSE
    /\ wall_glow_timer = 0
    /\ shockwave_effects = <<>>
    /\ initial_balls = <<>>
    /\ last = [op |-> "init"]
    /\ frames = 0
    /\ made = <<>>
    /\ ops = 0

-----------------------------------------------------------------------------
(* The simulation driven by its public operations over a few frames.       *)

MaxFrames == 2
MaxOps == 3

\* random.uniform(MIN_RADIUS, MAX_RADIUS): the two ends of the range.
Radii == {R(MIN_RADIUS), R(MAX_RADIUS)}

\* Vector2D.from_angle(angle, speed), MIN_SPEED <= speed <= MAX_SPEED.
RandomVelocities == {Vector2D(RNeg(MAX_SPEED), R(0)), Vector2D(R(0), MIN_SPEED)}

Draws == [radius : Radii, velocity : RandomVelocities]

SpawnRequests ==
    { [position |-> V(13, 405), color |-> COLOR_BALL_LEFT, velocity |-> V(-5, 3)],
      [position |-> V(46, 405), color |-> COLOR_BALL_OTHER, velocity |-> None] }

Origins == {V(46, 405)}

Init == SimInit /\ call = None

Next ==
    \/ \E q \in SpawnRequests, rnd \in Draws :
           ops < MaxOps /\ spawn_ball(q.position, q.color, q.velocity, rnd)
    \/ \E id \in 1..MaxOps : ops < MaxOps /\ remove_ball(id)
    \/ reset
    \/ (paused \/ frames < MaxFrames) /\ update
    \/ \E origin \in Origins : ops < MaxOps /\ apply_shockwave(origin)
    \/ ops < MaxOps /\ toggle_gravity
    \/ toggle_pause

Spec == Init /\ [][Next]_vars

-----------------------------------------------------------------------------
(* The simulation over a long run: user calls that change the bodies or    *)
(* the effects come in the first LongWindow frames, pausing at any time,   *)
(* and the frames then run until the glow timer and the effects are spent. *)

LongFrames == 32
LongWindow == 2
LongOps == 2

LongRequest ==
    [position |-> V(13, 405), color |-> COLOR_BALL_LEFT, velocity |-> V(-5, 3)]

LongOrigin == V(700, 0)

LongOpen == frames < LongWindow /\ ops < LongOps

NextLong ==
    \/ \E rnd \in Draws :
           LongOpen /\ spawn_ball(LongRequest.position, LongRequest.color,
                                  LongRequest.velocity, rnd)
    \/ \E id \in 1..LongOps : LongOpen /\ remove_ball(id)
    \/ reset
    \/ (paused \/ frames < LongFrames) /\ update
    \/ LongOpen /\ apply_shockwave(LongOrigin)
    \/ LongOpen /\ toggle_gravity
    \/ toggle_pause

SpecLong == Init /\ [][NextLong]_vars

\* An unpaused update() can run, and one runs: the only step that counts a
\* frame.
CanAdvance == ~paused /\ frames < LongFrames

Advance == frames' = frames + 1

\* The long run when the frame loop keeps calling update() and a paused
\* simulation is resumed: the unpaused frames keep coming until LongFrames.
\* The second conjunct is SF_vars(CanAdvance /\ update) written out, with
\* CanAdvance for ENABLED <<CanAdvance /\ update>>_vars.
SpecLongFair ==
    /\ SpecLong
    /\ (<>[]~CanAdvance \/ []<><<Advance>>_vars)
    /\ WF_vars(paused /\ toggle_pause)

-----------------------------------------------------------------------------
(* The simulation with no frame advancing: every public operation but the  *)
(* unpaused update, over spawn positions at the distances the two overlap  *)
(* checks of spawn_ball tell apart.                                        *)

StillOps == 3

\* From (100, 100): 30, 33, 40 (off the axes), 42 and 80 away.
StillPositions ==
    {V(100, 100), V(130, 100), V(133, 100), V(124, 132), V(142, 100), V(100, 180)}

StillDraws == [radius : Radii, velocity : {Vector2D(R(0), MIN_SPEED)}]

NextStill ==
    \/ \E position \in StillPositions, rnd \in StillDraws :
           ops < StillOps /\ spawn_ball(position, COLOR_BALL_OTHER, None, rnd)
    \/ \E id \in 1..StillOps : ops < StillOps /\ remove_ball(id)
    \/ reset
    \/ paused /\ update
    \/ \E origin \in Origins : ops < StillOps /\ apply_shockwave(origin)
    \/ ops < StillOps /\ toggle_gravity
    \/ toggle_pause

SpecStill == Init /\ [][NextStill]_vars

-----------------------------------------------------------------------------
(* The simulation in surface mode with every body on one horizontal line   *)
(* and every velocity along it: speeds are then multiples of 1/Grid, and   *)
(* magnitude and clamped are computed without rounding.                    *)

CapFrames == 3
CapOps == 3

\* A body at full speed and a resting one 45 px ahead of it.
CapRequests ==
    { [position |-> V(100, 200), color |-> COLOR_BALL_LEFT,  velocity |-> V(5, 0)],
      [position |-> V(145, 200), color |-> COLOR_BALL_OTHER, velocity |-> V(0, 0)] }

CapOrigin == V(400, 200)

NextCap ==
    \/ \E req \in CapRequests, rnd \in Draws :
           ops < CapOps /\ spawn_ball(req.position, req.color, req.velocity, rnd)
    \/ \E id \in 1..CapOps : ops < CapOps /\ remove_ball(id)
    \/ reset
    \/ (paused \/ frames < CapFrames) /\ update
    \/ ops < CapOps /\ apply_shockwave(CapOrigin)
    \/ toggle_pause

SpecCap == Init /\ [][NextCap]_vars

-----------------------------------------------------------------------------
(* The simulation at rest, asked which ball is under a point.              *)

QueryOps == 3

\* Two places 42 px apart, where a ball of radius 12 and one of radius 30
\* touch, and a place far from both.
QueryPositions == {V(100, 100), V(142, 100), V(300, 300)}

\* The point where those two balls touch when the small one is on the left,
\* a centre, points 5 and 13 px from it, and a point under nothing.
QueryPoints == {V(112, 100), V(100, 100), V(103, 104), V(100, 113), V(500, 50)}

NextQuery ==
    \/ \E position \in QueryPositions, rnd \in StillDraws :
           ops < QueryOps /\ spawn_ball(position, COLOR_BALL_OTHER, None, rnd)
    \/ \E id \in 1..QueryOps : ops < QueryOps /\ remove_ball(id)
    \/ reset
    \/ \E pos \in QueryPoints : ball_at(pos)

SpecQuery == Init /\ [][NextQuery]_vars

-----------------------------------------------------------------------------
(* The simulation with bodies sent into the left wall, at two heights, so  *)
(* that one can hit the wall while the glow of an earlier hit is running.  *)

GlowFrames == 3
GlowOps == 3

GlowRequests ==
    { [position |-> V(13, 100), color |-> COLOR_BALL_LEFT, velocity |-> V(-5, 0)],
      [position |-> V(13, 300), color |-> COLOR_BALL_LEFT, velocity |-> V(-5, 0)] }

NextGlow ==
    \/ \E req \in GlowRequests, rnd \in Draws :
           ops < GlowOps /\ spawn_ball(req.position, req.color, req.velocity, rnd)
    \/ \E id \in 1..GlowOps : ops < GlowOps /\ remove_ball(id)
    \/ reset
    \/ (paused \/ frames < GlowFrames) /\ update
    \/ ops < GlowOps /\ toggle_gravity
    \/ toggle_pause

SpecGlow == Init /\ [][NextGlow]_vars

-----------------------------------------------------------------------------
(* The simulation with three bodies in a row near the left wall and the    *)
(* floor, closing in on each other: after one frame the first has bounced  *)
(* off the wall into the second, and the third has run into the second.    *)

PassFrames == 2
PassOps == 3

\* After the first move and the walls, bodies of radius 12 spawned here are
\* at x = 12, 35 and 58, 23 px apart; before the walls the first is at x = 8.
PassRequests ==
    { [position |-> V(13, 405), color |-> COLOR_BALL_LEFT,  velocity |-> V(-5, 3)],
      [position |-> V(47, 405), color |-> COLOR_BALL_OTHER, velocity |-> V(-12, 3)],
      [position |-> V(80, 405), color |-> COLOR_BALL_OTHER, velocity |-> V(-22, 3)] }

\* Every request gives its velocity, so only the radius drawn matters.
PassDraws == [radius : Radii, velocity : {Vector2D(R(0), MIN_SPEED)}]

NextPass ==
    \/ \E req \in PassRequests, rnd \in PassDraws :
           ops < PassOps /\ spawn_ball(req.position, req.color, req.velocity, rnd)
    \/ \E id \in 1..PassOps : ops < PassOps /\ remove_ball(id)
    \/ reset
    \/ (paused \/ frames < PassFrames) /\ update
    \/ ops < PassOps /\ toggle_gravity
    \/ toggle_pause

SpecPass == Init /\ [][NextPass]_vars

-----------------------------------------------------------------------------
(* The simulation with a body at rest where the left wall puts a body of   *)
(* radius 12 that hits it, and a fast body sent into that wall at the same *)
(* height: after the first loop of the next update() the centres coincide. *)

PairFrames == 2
PairOps == 3

PairRequests ==
    { [position |-> V(12, 100),  color |-> COLOR_BALL_OTHER, velocity |-> V(0, 0)],
      [position |-> V(100, 100), color |-> COLOR_BALL_LEFT,  velocity |-> V(-200, 0)] }

\* Radii drawn by random.uniform(MIN_RADIUS, MAX_RADIUS): its lower end and
\* a value an eighth of a pixel above it.
PairDraws ==
    [radius : {R(MIN_RADIUS), Rat(8 * MIN_RADIUS + 1, 8)},
     velocity : {Vector2D(R(0), MIN_SPEED)}]

NextPair ==
    \/ \E req \in PairRequests, rnd \in PairDraws :
           ops < PairOps /\ spawn_ball(req.position, req.color, req.velocity, rnd)
    \/ \E id \in 1..PairOps : ops < PairOps /\ remove_ball(id)
    \/ reset
    \/ (paused \/ frames < PairFrames) /\ update
    \/ ops < PairOps /\ toggle_gravity
    \/ toggle_pause

SpecPair == Init /\ [][NextPair]_vars

-----------------------------------------------------------------------------
(* The functions of physics/collision.py and Ball.handle_wall_bounce on    *)
(* their own: the arguments of one call are drawn at the start, and the    *)
(* call returns.                                                           *)

Pending(fn, args) == [fn |-> fn, args |-> args, returned |-> FALSE, ret |-> None]

\* Offsets of centre A from centre B whose length is a whole number.
ResolveOffsets == {V(0, 0), V(3, 4), V(10, 0), V(0, -7), V(-12, 5), V(30, 40)}

ResolveArgs ==
    [pos_a : ResolveOffsets, vel_a : {V(-2, 1), V(1, 0), V(0, 0)},
     mass_a : {R(1), R(3)}, radius_a : {R(MIN_RADIUS)},
     pos_b : {V(0, 0)}, vel_b : {V(0, 0), V(1, -1)},
     mass_b : {R(1), R(3)}, radius_b : Radii]

call_resolve_collision ==
    /\ call.fn = "resolve_collision"
    /\ ~call.returned
    /\ call' = [call EXCEPT !.returned = TRUE, !.ret =
                   resolve_collision(call.args.pos_a, call.args.vel_a,
                                     call.args.mass_a, call.args.radius_a,
                                     call.args.pos_b, call.args.vel_b,
                                     call.args.mass_b, call.args.radius_b)]
    /\ UNCHANGED simvars

InitResolve ==
    SimInit /\ call \in {Pending("resolve_collision", a) : a \in ResolveArgs}

SpecResolve == InitResolve /\ [][call_resolve_collision]_vars

\* Centres at 0, 23, 24, 25, 30 (off the axes), 42, 60 and 100 from each other.
DetectCentres ==
    {V(0, 0), V(23, 0), V(24, 0), V(0, 25), V(18, 24), V(0, -42), V(-36, 48),
     V(60, 80)}

DetectArgs ==
    [pos_a : {V(0, 0), V(18, 24)}, radius_a : Radii,
     pos_b : DetectCentres, radius_b : Radii]

call_detect_collision ==
    /\ call.fn = "detect_collision"
    /\ ~call.returned
    /\ call' = [call EXCEPT !.returned = TRUE, !.ret =
                   detect_collision(call.args.pos_a, call.args.radius_a,
                                    call.args.pos_b, call.args.radius_b)]
    /\ UNCHANGED simvars

InitDetect ==
    SimInit /\ call \in {Pending("detect_collision", a) : a \in DetectArgs}

SpecDetect == InitDetect /\ [][call_detect_collision]_vars

BounceRadius == 10

\* A play area, and one no wider and no higher than a ball.
BounceAreas == {[width |-> 800, height |-> 420], [width |-> 20, height |-> 20]}

BounceArgs ==
    [x : {5, 10, 11, 400, 790, 795}, y : {5, 10, 100, 410, 415},
     vx : {-10, 0, 10}, vy : {-10, 0, 10}, area : BounceAreas]

BounceBall(a) ==
    Ball(1, V(a.x, a.y), V(a.vx, a.vy), R(BounceRadius), COLOR_BALL_OTHER)

call_handle_wall_bounce ==
    /\ call.fn = "handle_wall_bounce"
    /\ ~call.returned
    /\ call' = [call EXCEPT !.returned = TRUE, !.ret =
                   handle_wall_bounce(BounceBall(call.args),
                                      R(call.args.area.width),
                                      R(call.args.area.height))]
    /\ UNCHANGED simvars

InitBounce ==
    SimInit /\ call \in {Pending("handle_wall_bounce", a) : a \in BounceArgs}

SpecBounce == InitBounce /\ [][call_handle_wall_bounce]_vars

call_handle_wall_bounce_gravity ==
    /\ call.fn = "handle_wall_bounce_gravity"
    /\ ~call.returned
    /\ call' = [call EXCEPT !.returned = TRUE, !.ret =
                   handle_wall_bounce_gravity(BounceBall(call.args),
                                              R(call.args.area.width),
                                              R(call.args.area.height))]
    /\ UNCHANGED simvars

InitBounceGravity ==
    SimInit /\ call \in {Pending("handle_wall_bounce_gravity", a) : a \in BounceArgs}

SpecBounceGravity == InitBounceGravity /\ [][call_handle_wall_bounce_gravity]_vars

\* Operands and scalars of a division: zero, whole and fractional scalars of
\* both signs.
DivideArgs ==
    [a : {V(6, 9), V(1, 1), V(0, 0), V(-3, 4), V(5, -12),
          Vector2D(Rat(1, 2), Rat(-7, 4)), V(0, 7), V(400, 210)},
     scalar : {R(0), R(3), R(-2), R(1), R(-1), Rat(1, 2), Rat(-3, 4), R(800)}]

call_truediv ==
    /\ call.fn = "truediv"
    /\ ~call.returned
    /\ call' = [call EXCEPT !.returned = TRUE, !.ret =
                   truediv(call.args.a, call.args.scalar)]
    /\ UNCHANGED simvars

InitDivide ==
    SimInit /\ call \in {Pending("truediv", a) : a \in DivideArgs}

SpecDivide == InitDivide /\ [][call_truediv]_vars

-----------------------------------------------------------------------------
(* Claims about the frame tick.                                            *)

\* C1: while paused is true, an update() call changes nothing: the body list
\* with every body's position and velocity, wall_glow_timer, the shockwave
\* effects with their ages, gravity_on and paused are the same after the call
\* as before it; by induction the same holds of any number of consecutive
\* calls.
C1_PausedUpdateNoOp ==
    [][(paused /\ last'.op = "update") =>
           /\ balls' = balls
           /\ wall_glow_timer' = wall_glow_timer
           /\ shockwave_effects' = shockwave_effects
           /\ gravity_on' = gravity_on
           /\ paused' = paused]_vars

\* A paused update() has just returned in a simulation holding a moving
\* body, a running glow timer and an aged shockwave effect.
C1_Witness ==
    /\ paused
    /\ last.op = "update"
    /\ \E i \in 1..Len(balls) : balls[i].velocity # V(0, 0)
    /\ wall_glow_timer > 0
    /\ \E k \in 1..Len(shockwave_effects) : shockwave_effects[k].age > 0

\* C8: in every state the public operations reach, wall_glow_timer is a
\* whole number from 0 to WALL_GLOW_DURATION, and no update() call lowers it
\* by more than 1.
C8_GlowTimerRange ==
    /\ wall_glow_timer \in 0..WALL_GLOW_DURATION
    /\ [][/\ wall_glow_timer' \in 0..WALL_GLOW_DURATION
          /\ last'.op = "update" => wall_glow_timer' >= wall_glow_timer - 1]_vars

\* An update() has just lowered a running glow timer a second time.
C8_Witness ==
    /\ last.op = "update"
    /\ ~paused
    /\ wall_glow_timer = WALL_GLOW_DURATION - 2

\* C9: an unpaused update() in which no body hits the left wall takes a
\* wall_glow_timer of t > 0 to exactly t - 1 and leaves a timer of 0 at 0.
C9_GlowTimerDecay ==
    [][(~paused /\ last'.op = "update" /\ ~last'.hit_left) =>
           wall_glow_timer' =
               IF wall_glow_timer > 0 THEN wall_glow_timer - 1 ELSE 0]_vars

\* The glow timer was set by a left-wall hit, has decayed to 0 frame by
\* frame, and a further update() without a hit has left it at 0.
C9_Witness ==
    /\ last.op = "update"
    /\ ~last.hit_left
    /\ wall_glow_timer = 0
    /\ frames > WALL_GLOW_DURATION
    /\ balls # <<>>

\* The ages the effects created at the frames of made have at frame now:
\* one age per frame since creation, the effect gone once that reaches
\* SHOCKWAVE_VISUAL_DURATION.
RECURSIVE ExpectedAges(_, _)
ExpectedAges(stamps, now) ==
    IF stamps = <<>> THEN <<>>
    ELSE IF now - Head(stamps) < SHOCKWAVE_VISUAL_DURATION
         THEN <<now - Head(stamps)>> \o ExpectedAges(Tail(stamps), now)
         ELSE ExpectedAges(Tail(stamps), now)

\* C10: a shockwave effect starts at age 0, has age k after k unpaused
\* update() calls for every k < SHOCKWAVE_VISUAL_DURATION, is removed by the
\* SHOCKWAVE_VISUAL_DURATION-th unpaused update() after its creation and by
\* none before, and paused update() calls do not age it: at every moment the
\* effects present are, in order of creation, those created fewer than
\* SHOCKWAVE_VISUAL_DURATION unpaused frames ago, each with the number of
\* unpaused frames since its creation as its age.
C10_Ages ==
    [k \in 1..Len(shockwave_effects) |-> shockwave_effects[k].age]
        = ExpectedAges(made, frames)

C10_EffectLifetime ==
    /\ []C10_Ages
    /\ (shockwave_effects # <<>>) ~> (shockwave_effects = <<>>)

\* An effect created at a later frame than an earlier one has outlived it:
\* the earlier one was removed at age SHOCKWAVE_VISUAL_DURATION, the later
\* one is in its last frame.
C10_Witness ==
    /\ Len(made) = 2
    /\ made[2] > made[1]
    /\ Len(shockwave_effects) = 1
    /\ shockwave_effects[1].age = SHOCKWAVE_VISUAL_DURATION - 1

-----------------------------------------------------------------------------
(* Claims about spawning.                                                  *)

\* Whether the centres p and q are closer than reach, by the squares.
Closer(p, q, reach) == RLt(distance_sq_to(p, q), RMul(reach, reach))

\* C2: a spawn is rejected if and only if some existing body is closer to
\* the position than the average radius plus its own radius (the pre-check)
\* or closer than the drawn radius plus its own radius (the re-check); the
\* pre-check comes first, before any radius is drawn, and either check alone
\* rejects.  A rejected spawn returns no body and leaves the body list, the
\* effects, the glow timer and both flags as they were.
C2_SpawnRejection ==
    [][last'.op = "spawn_ball" =>
           LET pre == \E i \in 1..Len(balls) :
                          Closer(last'.position, balls[i].position,
                                 RAdd(Rat(MIN_RADIUS + MAX_RADIUS, 2), balls[i].radius))
               re  == \E i \in 1..Len(balls) :
                          Closer(last'.position, balls[i].position,
                                 RAdd(last'.radius, balls[i].radius))
           IN  /\ last'.ret = 0 <=> (pre \/ re)
               /\ pre => last'.radius = R(0)
               /\ last'.ret = 0 =>
                      /\ balls' = balls
                      /\ shockwave_effects' = shockwave_effects
                      /\ wall_glow_timer' = wall_glow_timer
                      /\ gravity_on' = gravity_on
                      /\ paused' = paused]_vars

\* A spawn has just been rejected by the re-check alone: the pre-check
\* passed, a radius was drawn, and a body is closer than the two radii.
C2_Witness ==
    /\ last.op = "spawn_ball"
    /\ last.ret = 0
    /\ last.radius # R(0)
    /\ \A i \in 1..Len(balls) :
           ~Closer(last.position, balls[i].position,
                   RAdd(Rat(MIN_RADIUS + MAX_RADIUS, 2), balls[i].radius))
    /\ \E i \in 1..Len(balls) :
           Closer(last.position, balls[i].position,
                  RAdd(last.radius, balls[i].radius))

\* C3: with no unpaused update(), whatever else is called, every two stored
\* bodies have their centres at least the sum of their radii apart.
C3_NoOverlapAtSpawn ==
    \A i \in 1..Len(balls) : \A j \in 1..Len(balls) :
        i < j => ~Closer(balls[i].position, balls[j].position,
                         RAdd(balls[i].radius, balls[j].radius))

\* Two stored bodies of different radii are exactly touching, off the axes
\* from a third.
C3_Witness ==
    /\ Len(balls) = 3
    /\ \E i \in 1..Len(balls) : \E j \in 1..Len(balls) :
           /\ balls[i].radius # balls[j].radius
           /\ distance_sq_to(balls[i].position, balls[j].position)
                  = RMul(RAdd(balls[i].radius, balls[j].radius),
                         RAdd(balls[i].radius, balls[j].radius))

-----------------------------------------------------------------------------
(* Claims about physics/collision.py and Ball.handle_wall_bounce.          *)

\* The unit normal from B to A that a resolve call works with.
NormalOf(a) ==
    IF a.pos_a = a.pos_b THEN V(1, 0) ELSE normalized(Vsub(a.pos_a, a.pos_b))

Approaching(a) == RLe(dot(Vsub(a.vel_a, a.vel_b), NormalOf(a)), R(0))

TotalMomentum(mass_a, vel_a, mass_b, vel_b) ==
    Vadd(Vmul(vel_a, mass_a), Vmul(vel_b, mass_b))

TotalEnergy(mass_a, vel_a, mass_b, vel_b) ==
    RAdd(RMul(RMul(Rat(1, 2), mass_a), magnitude_sq(vel_a)),
         RMul(RMul(Rat(1, 2), mass_b), magnitude_sq(vel_b)))

Resolved == call.fn = "resolve_collision" /\ call.returned

\* C4: a resolve call with approaching relative velocity along the normal
\* and positive masses, equal or different, returns velocities with the
\* total momentum and the total kinetic energy of the velocities given.
C4_ResolveConserves ==
    (Resolved /\ Approaching(call.args)) =>
        /\ TotalMomentum(call.args.mass_a, call.ret.vel_a,
                         call.args.mass_b, call.ret.vel_b)
               = TotalMomentum(call.args.mass_a, call.args.vel_a,
                               call.args.mass_b, call.args.vel_b)
        /\ TotalEnergy(call.args.mass_a, call.ret.vel_a,
                       call.args.mass_b, call.ret.vel_b)
               = TotalEnergy(call.args.mass_a, call.args.vel_a,
                             call.args.mass_b, call.args.vel_b)

\* A resolve call has returned for bodies of different masses approaching
\* along a normal off the axes, with both velocities changed.
C4_Witness ==
    /\ Resolved
    /\ Approaching(call.args)
    /\ call.args.mass_a # call.args.mass_b
    /\ call.args.pos_a = V(3, 4)
    /\ call.ret.vel_a # call.args.vel_a
    /\ call.ret.vel_b # call.args.vel_b

Overlapping(a) ==
    Closer(a.pos_a, a.pos_b, RAdd(a.radius_a, a.radius_b))

\* The square of the sum of the radii of a resolve call.
ReachSq(a) ==
    RMul(RAdd(a.radius_a, a.radius_b), RAdd(a.radius_a, a.radius_b))

\* C5, as claimed: whenever resolve is called on two overlapping bodies,
\* coincident centres included, the centres are afterwards strictly farther
\* apart than the sum of the radii.
C5_StrictlySeparated ==
    (Resolved /\ Overlapping(call.args)) =>
        RGt(distance_sq_to(call.ret.pos_a, call.ret.pos_b), ReachSq(call.args))

\* C5, as amended: whenever resolve is called on two overlapping bodies
\* with distinct centres, the centres are afterwards strictly farther apart
\* than the sum of the radii; with coincident centres they are afterwards
\* exactly the sum of the radii apart, along the x axis.
C5_SeparatedUnlessCoincident ==
    (Resolved /\ Overlapping(call.args)) =>
        IF call.args.pos_a = call.args.pos_b
        THEN /\ distance_sq_to(call.ret.pos_a, call.ret.pos_b) = ReachSq(call.args)
             /\ call.ret.pos_a.y = call.ret.pos_b.y
        ELSE RGt(distance_sq_to(call.ret.pos_a, call.ret.pos_b),
                 ReachSq(call.args))

\* A resolve call has returned for overlapping bodies of different radii
\* with distinct centres off the axes from each other, now one pixel more
\* than the sum of the radii apart.
C5_Witness ==
    /\ Resolved
    /\ Overlapping(call.args)
    /\ call.args.pos_a = V(-12, 5)
    /\ call.args.radius_a # call.args.radius_b
    /\ distance_sq_to(call.ret.pos_a, call.ret.pos_b)
           = RMul(RAdd(RAdd(call.args.radius_a, call.args.radius_b), R(1)),
                  RAdd(RAdd(call.args.radius_a, call.args.radius_b), R(1)))

\* The square of the distance of the centres of a detect call and the
\* square of the sum of its radii, in whole pixels.
CentreGapSq(a) ==
    (a.pos_a.x.num - a.pos_b.x.num) * (a.pos_a.x.num - a.pos_b.x.num)
        + (a.pos_a.y.num - a.pos_b.y.num) * (a.pos_a.y.num - a.pos_b.y.num)

RadiusSumSq(a) ==
    (a.radius_a.num + a.radius_b.num) * (a.radius_a.num + a.radius_b.num)

\* C6: detect is true if and only if the squared centre distance is
\* strictly less than the square of the sum of the radii, so false for
\* bodies exactly touching and true for any smaller distance, coincident
\* centres included; and it is the same with the two bodies exchanged.
C6_DetectStrict ==
    (call.fn = "detect_collision" /\ call.returned) =>
        /\ call.ret <=> CentreGapSq(call.args) < RadiusSumSq(call.args)
        /\ call.ret <=> detect_collision(call.args.pos_b, call.args.radius_b,
                                         call.args.pos_a, call.args.radius_a)

\* A detect call has returned false for bodies of different radii exactly
\* touching.
C6_Witness ==
    /\ call.fn = "detect_collision"
    /\ call.returned
    /\ ~call.ret
    /\ call.args.radius_a # call.args.radius_b
    /\ CentreGapSq(call.args) = RadiusSumSq(call.args)

\* One axis of the wall bounce in whole pixels: the position p and the
\* velocity v of a body of radius r between 0 and limit.
HitsLow(p, v, r) == p - r <= 0 /\ v < 0

HitsHigh(p, v, r, limit) == p + r >= limit /\ v > 0

BouncedPosition(p, v, r, limit) ==
    IF HitsLow(p, v, r) THEN r
    ELSE IF HitsHigh(p, v, r, limit) THEN limit - r ELSE p

BouncedVelocity(p, v, r, limit) ==
    IF HitsLow(p, v, r) \/ HitsHigh(p, v, r, limit) THEN -v ELSE v

\* C7: the wall bounce without gravity treats each axis on its own: where
\* the leading edge of the body has reached or crossed a wall and the
\* velocity on that axis points into that wall, the velocity on that axis
\* changes sign and keeps its magnitude and the position on that axis
\* becomes r or the boundary less r; otherwise both stay as they are.  The
\* call returns true exactly when the left wall was hit.
C7_WallBounce ==
    (call.fn = "handle_wall_bounce" /\ call.returned) =>
        LET a == call.args
            r == BounceRadius
        IN  /\ call.ret.ball.position =
                   V(BouncedPosition(a.x, a.vx, r, a.area.width),
                     BouncedPosition(a.y, a.vy, r, a.area.height))
            /\ call.ret.ball.velocity =
                   V(BouncedVelocity(a.x, a.vx, r, a.area.width),
                     BouncedVelocity(a.y, a.vy, r, a.area.height))
            /\ call.ret.hit_left <=> HitsLow(a.x, a.vx, r)

\* The call has returned true for the body at (5, 100) moving left at 10,
\* now at x = r and moving right.
C7_Witness ==
    /\ call.fn = "handle_wall_bounce"
    /\ call.returned
    /\ call.args.x = 5 /\ call.args.y = 100
    /\ call.args.vx = -10 /\ call.args.vy = 0
    /\ call.args.area.width = 800
    /\ call.ret.hit_left
    /\ call.ret.ball.position = V(BounceRadius, 100)
    /\ call.ret.ball.velocity = V(10, 0)

-----------------------------------------------------------------------------
(* Claims about the user actions.                                          *)

\* The fields of the simulation that no shockwave and no toggle touches.
SameBodies(before, after) ==
    /\ Len(after) = Len(before)
    /\ \A i \in 1..Len(before) :
           /\ after[i].id = before[i].id
           /\ after[i].position = before[i].position
           /\ after[i].radius = before[i].radius
           /\ after[i].mass = before[i].mass
           /\ after[i].color = before[i].color

\* C11: apply_shockwave(origin) sets the velocity of every body to its
\* velocity plus the shockwave impulse at its position, clamped to
\* MAX_SPEED_CAP, leaves the positions, the body list, both flags and
\* wall_glow_timer as they were and appends the one effect of that origin
\* and age 0 at the end of shockwave_effects, with or without bodies, paused
\* or not.
C11_ShockwaveEffect ==
    [][last'.op = "apply_shockwave" =>
           /\ SameBodies(balls, balls')
           /\ \A i \in 1..Len(balls) :
                  balls'[i].velocity =
                      FlV(clamped(FlV(Vadd(balls[i].velocity,
                                           compute_shockwave_impulse(
                                               balls[i].position, last'.origin))),
                                  MAX_SPEED_CAP))
           /\ shockwave_effects' =
                  shockwave_effects \o <<[origin |-> last'.origin, age |-> 0]>>
           /\ gravity_on' = gravity_on
           /\ paused' = paused
           /\ wall_glow_timer' = wall_glow_timer]_vars

\* A shockwave has just been applied, while paused, after an earlier one:
\* a body that has not moved since it was spawned has another velocity, and
\* the new effect is the second of two.
C11_Witness ==
    /\ last.op = "apply_shockwave"
    /\ paused
    /\ frames = 0
    /\ Len(balls) = 1 /\ Len(initial_balls) = 1
    /\ balls[1].position = initial_balls[1][1]
    /\ balls[1].velocity # initial_balls[1][2]
    /\ Len(shockwave_effects) = 2
    /\ shockwave_effects[2] = [origin |-> last.origin, age |-> 0]

\* C14: after reset(), from whatever state, the simulation is as a freshly
\* constructed one: no bodies, no effects, gravity_on and paused false,
\* wall_glow_timer 0, and no initial-state snapshots.
C14_ResetIsFresh ==
    [][last'.op = "reset" =>
           /\ balls' = <<>>
           /\ shockwave_effects' = <<>>
           /\ gravity_on' = FALSE
           /\ paused' = FALSE
           /\ wall_glow_timer' = 0
           /\ initial_balls' = <<>>]_vars

\* reset() has just returned.
C14_Witness ==
    /\ last.op = "reset"
    /\ balls = <<>> /\ shockwave_effects = <<>> /\ initial_balls = <<>>
    /\ ~gravity_on /\ ~paused /\ wall_glow_timer = 0

\* C20: toggle_gravity() flips gravity_on and toggle_pause() flips paused,
\* and each leaves everything else (the bodies, the other flag, the glow
\* timer, the effects) as it was; so each applied twice restores the state
\* and the two commute.
C20_Toggles ==
    [][/\ last'.op = "toggle_gravity" =>
              /\ gravity_on' = ~gravity_on
              /\ paused' = paused
              /\ balls' = balls
              /\ wall_glow_timer' = wall_glow_timer
              /\ shockwave_effects' = shockwave_effects
       /\ last'.op = "toggle_pause" =>
              /\ paused' = ~paused
              /\ gravity_on' = gravity_on
              /\ balls' = balls
              /\ wall_glow_timer' = wall_glow_timer
              /\ shockwave_effects' = shockwave_effects]_vars

\* toggle_gravity() has just switched gravity back off, in a paused
\* simulation with a body in it.
C20_Witness ==
    /\ last.op = "toggle_gravity"
    /\ ~gravity_on
    /\ ops >= 3
    /\ paused
    /\ balls # <<>>

\* C12: a shockwave has no effect beyond its radius: apply_shockwave(origin)
\* leaves the velocity of every body whose centre is farther than
\* SHOCKWAVE_RADIUS from the origin exactly as it was, whatever it was.
C12_NoEffectBeyondRadius ==
    [][last'.op = "apply_shockwave" =>
           \A i \in 1..Len(balls) :
               RGt(distance_sq_to(balls[i].position, last'.origin),
                   RMul(SHOCKWAVE_RADIUS, SHOCKWAVE_RADIUS))
                   => balls'[i].velocity = balls[i].velocity]_vars

\* C13: MAX_SPEED_CAP is an absolute limit: right after every update() that
\* ran unpaused, the speed of every body is at most MAX_SPEED_CAP.
C13_SpeedCapAfterUpdate ==
    [][(~paused /\ last'.op = "update") =>
           \A i \in 1..Len(balls') :
               RLe(magnitude_sq(balls'[i].velocity),
                   RMul(MAX_SPEED_CAP, MAX_SPEED_CAP))]_vars

\* The bodies of a list other than the one with the given identity, in the
\* order of the list.
Others(bs, id) == SelectSeq(bs, LAMBDA b : b.id # id)

C16_SpawnAppends ==
    [][(last'.op = "spawn_ball" /\ last'.ret # 0) =>
           /\ Len(balls') = Len(balls) + 1
           /\ SubSeq(balls', 1, Len(balls)) = balls
           /\ balls'[Len(balls')].id = last'.ret
           /\ balls'[Len(balls')].position = last'.position
           /\ balls'[Len(balls')].color = last'.color
           /\ last'.velocity # None
                  => balls'[Len(balls')].velocity = last'.velocity
           /\ RLe(R(MIN_RADIUS), balls'[Len(balls')].radius)
           /\ RLe(balls'[Len(balls')].radius, R(MAX_RADIUS))
           /\ balls'[Len(balls')].mass
                  = RMul(RMul(MASS_DENSITY, Pi), Sq(balls'[Len(balls')].radius))
           /\ RGt(balls'[Len(balls')].mass, R(0))
           /\ gravity_on' = gravity_on
           /\ paused' = paused
           /\ wall_glow_timer' = wall_glow_timer
           /\ shockwave_effects' = shockwave_effects]_vars

\* A second body has just been spawned with an explicit velocity faster
\* than the speed cap, and carries it.
C16_Witness ==
    /\ last.op = "spawn_ball"
    /\ last.ret # 0
    /\ Len(balls) = 2
    /\ balls[2].id = last.ret
    /\ last.velocity # None
    /\ balls[2].velocity = last.velocity
    /\ RGt(magnitude_sq(balls[2].velocity), RMul(MAX_SPEED_CAP, MAX_SPEED_CAP))

-----------------------------------------------------------------------------
(* More claims about resolve_collision.                                    *)

\* C17: resolve with identical centres does not fail: it takes the normal
\* (1, 0) and the distance 1, moves body A in +x and body B in -x by the
\* same amount, leaves y alone, and returns centres a strictly positive
\* distance apart.
C17_CoincidentCentres ==
    (Resolved /\ call.args.pos_a = call.args.pos_b) =>
        /\ call.ret.pos_a.y = call.args.pos_a.y
        /\ call.ret.pos_b.y = call.args.pos_b.y
        /\ call.ret.vel_a.y = call.args.vel_a.y
        /\ call.ret.vel_b.y = call.args.vel_b.y
        /\ RGt(call.ret.pos_a.x, call.args.pos_a.x)
        /\ RLt(call.ret.pos_b.x, call.args.pos_b.x)
        /\ RSub(call.ret.pos_a.x, call.args.pos_a.x)
               = RSub(call.args.pos_b.x, call.ret.pos_b.x)
        /\ RSub(call.ret.pos_a.x, call.args.pos_a.x)
               = RAdd(RDiv(RSub(RAdd(call.args.radius_a, call.args.radius_b),
                                R(1)), R(2)),
                      Rat(1, 2))
        /\ RGt(distance_sq_to(call.ret.pos_a, call.ret.pos_b), R(0))

\* A resolve call has returned for bodies of different radii on the same
\* centre, the first moving left: it is now right of the second.
C17_Witness ==
    /\ Resolved
    /\ call.args.pos_a = call.args.pos_b
    /\ call.args.radius_a # call.args.radius_b
    /\ call.args.vel_a = V(-2, 1)
    /\ RGt(call.ret.pos_a.x, call.ret.pos_b.x)
    /\ call.ret.pos_a.y = call.ret.pos_b.y

\* The distance resolve works with: 1 for identical centres.
DistOf(a) ==
    IF a.pos_a = a.pos_b THEN R(1) ELSE distance_to(a.pos_a, a.pos_b)

\* The position correction of one body: overlap / 2 + 0.5 along the normal.
CorrectionOf(a) ==
    Vmul(NormalOf(a),
         RAdd(RDiv(RSub(RAdd(a.radius_a, a.radius_b), DistOf(a)), R(2)),
              Rat(1, 2)))

\* C18: when the relative velocity along the normal is positive, the bodies
\* already separating, resolve returns both velocities as they were, and
\* still moves each body by overlap / 2 + 0.5 along the normal when they
\* overlap.
C18_SeparatingKeepsVelocities ==
    (Resolved /\ ~Approaching(call.args)) =>
        /\ call.ret.vel_a = call.args.vel_a
        /\ call.ret.vel_b = call.args.vel_b
        /\ RLt(DistOf(call.args), RAdd(call.args.radius_a, call.args.radius_b))
               => /\ call.ret.pos_a
                         = Vadd(call.args.pos_a, CorrectionOf(call.args))
                  /\ call.ret.pos_b
                         = Vsub(call.args.pos_b, CorrectionOf(call.args))

\* A resolve call has returned for overlapping bodies off the axes from each
\* other that were moving apart: same velocities, other positions.
C18_Witness ==
    /\ Resolved
    /\ ~Approaching(call.args)
    /\ Overlapping(call.args)
    /\ call.args.pos_a = V(3, 4)
    /\ call.args.vel_a = V(1, 0)
    /\ call.ret.vel_a = call.args.vel_a
    /\ call.ret.pos_a # call.args.pos_a
    /\ call.ret.pos_b # call.args.pos_b

-----------------------------------------------------------------------------
(* Claims about the queries.                                               *)

\* The places in the body list of the bodies whose centre is at most their
\* own radius from a point, by squared distances.
Covering(bs, pos) ==
    {i \in 1..Len(bs) :
        RLe(distance_sq_to(pos, bs[i].position), RMul(bs[i].radius, bs[i].radius))}

\* C19: ball_at(position) returns the first body in insertion order whose
\* centre is at most its own radius from the position, the border included,
\* also when several bodies cover the position, and nothing when none does;
\* it changes no state.
C19_BallAt ==
    [][last'.op = "ball_at" =>
           /\ IF Covering(balls, last'.pos) = {}
              THEN last'.ret = 0
              ELSE \E i \in Covering(balls, last'.pos) :
                       /\ \A j \in Covering(balls, last'.pos) : i <= j
                       /\ last'.ret = balls[i].id
           /\ balls' = balls
           /\ gravity_on' = gravity_on
           /\ paused' = paused
           /\ wall_glow_timer' = wall_glow_timer
           /\ shockwave_effects' = shockwave_effects
           /\ initial_balls' = initial_balls]_vars

\* ball_at has just answered for the point where two bodies touch, on the
\* border of both: the one spawned first, which is the smaller one.
C19_Witness ==
    /\ last.op = "ball_at"
    /\ Len(balls) = 2
    /\ Covering(balls, last.pos) = {1, 2}
    /\ distance_sq_to(last.pos, balls[1].position)
           = RMul(balls[1].radius, balls[1].radius)
    /\ distance_sq_to(last.pos, balls[2].position)
           = RMul(balls[2].radius, balls[2].radius)
    /\ RLt(balls[1].radius, balls[2].radius)
    /\ last.ret = balls[1].id

-----------------------------------------------------------------------------
(* Claims about the vector arithmetic.                                     *)

\* C21: dividing a vector by the scalar zero fails with a division error
\* that reaches the caller, and no vector is produced; dividing by any other
\* scalar returns a vector, the one that multiplied by the scalar gives the
\* operand back, and the operand is as it was.
C21_DivideByZeroRaises ==
    (call.fn = "truediv" /\ call.returned) =>
        IF call.args.scalar.num = 0
        THEN /\ call.ret.raised = "ZeroDivisionError"
             /\ "value" \notin DOMAIN call.ret
        ELSE /\ call.ret.raised = ""
             /\ "value" \in DOMAIN call.ret
             /\ Vmul(call.ret.value, call.args.scalar) = call.args.a

\* A division of a non-zero vector by zero has returned, with the error.
C21_Witness ==
    /\ call.fn = "truediv"
    /\ call.returned
    /\ call.args.a = V(1, 1)
    /\ call.args.scalar = R(0)
    /\ call.ret.raised = "ZeroDivisionError"
    /\ "value" \notin DOMAIN call.ret

-----------------------------------------------------------------------------
(* Claims about the order of the steps of update().                        *)

\* A body is sent into the left wall by the forces and the move of this
\* frame: its left edge at or past x = 0 while it moves left.
ReachesLeftWall(b, gravity) ==
    /\ RLe(RSub(step_move(step_forces(b, gravity)).position.x, b.radius), R(0))
    /\ RLt(step_move(step_forces(b, gravity)).velocity.x, R(0))

\* C22: in an unpaused update() in which some body hits the left wall, the
\* wall_glow_timer is set to WALL_GLOW_DURATION whatever it was, before the
\* decay at the end of the same call, which still applies once: after the
\* update the timer is WALL_GLOW_DURATION - 1.
C22_HitThenDecay ==
    [][(~paused /\ last'.op = "update"
           /\ \E i \in 1..Len(balls) : ReachesLeftWall(balls[i], gravity_on))
          => wall_glow_timer' = WALL_GLOW_DURATION - 1]_vars

\* The second update() has just run: the first body bounced off the left
\* wall a frame ago and has moved on, the second, spawned since, has bounced
\* in this one, with the glow of the first hit still running.
C22_Witness ==
    /\ last.op = "update"
    /\ last.hit_left
    /\ frames = 2
    /\ Len(balls) = 2
    /\ RGt(balls[1].velocity.x, R(0))
    /\ RGt(balls[1].position.x, RAdd(balls[1].radius, R(1)))
    /\ RGt(balls[2].velocity.x, R(0))
    /\ balls[2].position.x = balls[2].radius
    /\ wall_glow_timer = WALL_GLOW_DURATION - 1

\* The bodies after the first loop of update(): each one through forces,
\* move, walls, floor restitution and friction, wall boost and speed clamp.
AfterFirstLoop(bs, gravity) ==
    [i \in 1..Len(bs) |-> step_ball(bs[i], gravity).ball]

\* Two bodies overlap, by squared distances.
Overlap(a, b) ==
    RLt(distance_sq_to(a.position, b.position),
        RMul(RAdd(a.radius, b.radius), RAdd(a.radius, b.radius)))

\* C23: in an unpaused update() every body goes through its whole pipeline
\* before the first pair is tested, so the collision pass works on the
\* positions the wall handling left: the bodies after the update are the
\* collision pass applied to the bodies after the first loop, and two
\* bodies alone are moved by the pass exactly when they overlap where the
\* walls left them.
C23_PipelineBeforePairs ==
    [][(~paused /\ last'.op = "update") =>
           /\ balls' = collide_all(AfterFirstLoop(balls, gravity_on), 1, 2)
           /\ Len(balls) = 2 =>
                  (balls' # AfterFirstLoop(balls, gravity_on)
                      <=> Overlap(AfterFirstLoop(balls, gravity_on)[1],
                                  AfterFirstLoop(balls, gravity_on)[2]))]_vars

\* The first update() has run on two bodies: the first one bounced off the
\* left wall, met the second one where the wall left it, and was pushed back
\* past the wall line by the separation.
C23_Witness ==
    /\ last.op = "update"
    /\ last.hit_left
    /\ frames = 1
    /\ Len(balls) = 2
    /\ RLt(balls[1].position.x, balls[1].radius)
    /\ ~Overlap(balls[1], balls[2])

\* The bodies after the cells (i, j) of the n by n table of indices have
\* been gone through row by row from cell k on, each cell with i < j a pair
\* detected and resolved on what the pairs before it left.
RECURSIVE InTurn(_, _)
InTurn(bs, k) ==
    IF k > Len(bs) * Len(bs) THEN bs
    ELSE InTurn(IF ((k - 1) \div Len(bs)) + 1 < ((k - 1) % Len(bs)) + 1
                THEN collide_pair(bs, ((k - 1) \div Len(bs)) + 1,
                                  ((k - 1) % Len(bs)) + 1)
                ELSE bs,
                k + 1)

\* C24: the collision pass of update() takes every pair (i, j), i < j, once,
\* in lexicographic order of the insertion indices, each detected and
\* resolved on the positions and velocities the pairs before it left; a
\* body overlapping two others is resolved against each in turn.
C24_PairsInTurn ==
    [][(~paused /\ last'.op = "update") =>
           balls' = InTurn(AfterFirstLoop(balls, gravity_on), 1)]_vars

\* The first update() has run on three bodies in a row, the middle one
\* overlapping both others after the first loop: the first pair was pushed
\* apart, then the middle body pushed back by the third, into the first.
C24_Witness ==
    /\ last.op = "update"
    /\ frames = 1
    /\ Len(balls) = 3
    /\ \A i \in 1..3 : balls[i].position.y = R(408)
    /\ RLt(balls[1].position.x, R(12))
    /\ RGt(balls[3].position.x, R(58))
    /\ ~Overlap(balls[2], balls[3])
    /\ ~Overlap(balls[1], balls[3])
    /\ Overlap(balls[1], balls[2])

-----------------------------------------------------------------------------
(* Claims about the list of shockwave effects.                             *)

\* C25: in every state the public operations can reach, every record of
\* shockwave_effects has 0 <= age < SHOCKWAVE_VISUAL_DURATION.
C25_AgesInRange ==
    \A i \in 1..Len(shockwave_effects) :
        /\ shockwave_effects[i].age >= 0
        /\ shockwave_effects[i].age < SHOCKWAVE_VISUAL_DURATION

\* An effect is in its last frame, and a younger one is behind it.
C25_Witness ==
    /\ Len(shockwave_effects) = 2
    /\ shockwave_effects[1].age = SHOCKWAVE_VISUAL_DURATION - 1
    /\ shockwave_effects[2].age = SHOCKWAVE_VISUAL_DURATION - 2

\* The effects of a list from place k + 1 on, each one frame older.
AgedFrom(effects, k) ==
    [i \in 1..(Len(effects) - k) |-> [effects[k + i] EXCEPT !.age = @ + 1]]

\* C28: in every reachable state shockwave_effects is in the order of
\* creation, oldest first, so the ages do not increase along the list; an
\* update() removes a prefix of the list at most and leaves the effects
\* that stay in their order.
C28_OldestFirst ==
    /\ [](\A i, j \in 1..Len(shockwave_effects) :
              i < j => shockwave_effects[i].age >= shockwave_effects[j].age)
    /\ [][(~paused /\ last'.op = "update") =>
              \E k \in 0..Len(shockwave_effects) :
                  shockwave_effects' = AgedFrom(shockwave_effects, k)]_vars

\* An update() has just removed the older of two effects made a frame
\* apart and kept the younger one, in its last frame.
C28_Witness ==
    /\ last.op = "update"
    /\ made = <<0, 1>>
    /\ frames = SHOCKWAVE_VISUAL_DURATION
    /\ Len(shockwave_effects) = 1
    /\ shockwave_effects[1].age = SHOCKWAVE_VISUAL_DURATION - 1

-----------------------------------------------------------------------------
(* Claims about what update() leaves alone.                                *)

\* The same bodies in the same order, each with its radius, mass and colour.
SameMakeup(before, after) ==
    /\ Len(after) = Len(before)
    /\ \A i \in 1..Len(before) :
           /\ after[i].id = before[i].id
           /\ after[i].radius = before[i].radius
           /\ after[i].mass = before[i].mass
           /\ after[i].color = before[i].color

\* C26: update(), paused or not, never adds, removes or reorders bodies and
\* never changes the radius, mass or colour of a body, nor gravity_on or
\* paused; only positions, velocities, wall_glow_timer and the shockwave
\* effects may change.
C26_UpdateKeepsMakeup ==
    [][last'.op = "update" =>
           /\ SameMakeup(balls, balls')
           /\ gravity_on' = gravity_on
           /\ paused' = paused]_vars

\* The first update() has run on three bodies, moved every one of them and
\* resolved collisions: each is still in its place in the list with the
\* radius and colour it was spawned with.
C26_Witness ==
    /\ last.op = "update"
    /\ ~paused
    /\ frames = 1
    /\ Len(balls) = 3
    /\ Len(initial_balls) = 3
    /\ Overlap(balls[1], balls[2])
    /\ \A i \in 1..3 :
           /\ balls[i].position # initial_balls[i][1]
           /\ balls[i].velocity # initial_balls[i][2]
           /\ balls[i].radius = initial_balls[i][3]
           /\ balls[i].color = initial_balls[i][4]

-----------------------------------------------------------------------------
(* Claims about the two wall bounces.                                      *)

\* C27: the gravity-mode wall bounce and the wall bounce without gravity
\* have the same effect: for every body and boundary the same position, the
\* same velocity and the same left-wall flag; the floor flag of the gravity
\* variant is true exactly when the bottom boundary flipped the body
\* (y + r >= height with vy > 0), and the body then ends with y = height - r
\* and vy < 0.
C27_BouncesAgree ==
    (call.fn = "handle_wall_bounce_gravity" /\ call.returned) =>
        /\ call.ret.ball =
               handle_wall_bounce(BounceBall(call.args), R(call.args.area.width),
                                  R(call.args.area.height)).ball
        /\ call.ret.hit_left =
               handle_wall_bounce(BounceBall(call.args), R(call.args.area.width),
                                  R(call.args.area.height)).hit_left
        /\ call.ret.hit_floor <=>
               HitsHigh(call.args.y, call.args.vy, BounceRadius,
                        call.args.area.height)
        /\ call.ret.hit_floor =>
               /\ call.ret.ball.position.y = R(call.args.area.height - BounceRadius)
               /\ RLt(call.ret.ball.velocity.y, R(0))

\* The gravity-mode call has returned for the body at (5, 415) moving left
\* and down: both flags, the body in the corner and moving right and up.
C27_Witness ==
    /\ call.fn = "handle_wall_bounce_gravity"
    /\ call.returned
    /\ call.args.x = 5 /\ call.args.y = 415
    /\ call.args.vx = -10 /\ call.args.vy = 10
    /\ call.args.area.height = 420
    /\ call.ret.hit_left
    /\ call.ret.hit_floor
    /\ call.ret.ball.position = V(BounceRadius, 420 - BounceRadius)
    /\ call.ret.ball.velocity = V(10, -10)

-----------------------------------------------------------------------------
(* Claims about the state update() leaves.                                 *)

\* C29: in a simulation of exactly two bodies, after every unpaused
\* update() the two bodies do not overlap, detect being false for them,
\* whatever their positions and velocities before the call, coincident
\* centres included.
C29_TwoBodiesApart ==
    [][(~paused /\ last'.op = "update" /\ Len(balls) = 2) =>
           ~detect_collision(balls'[1].position, balls'[1].radius,
                             balls'[2].position, balls'[2].radius)]_vars

\* A body is fully inside the play area.
Inside(b) ==
    /\ RLe(b.radius, b.position.x)
    /\ RLe(b.position.x, RSub(R(WINDOW_WIDTH), b.radius))
    /\ RLe(b.radius, b.position.y)
    /\ RLe(b.position.y, RSub(R(PLAY_AREA_HEIGHT), b.radius))

\* No two of the bodies overlap.
NoOverlap(bs) ==
    \A i, j \in 1..Len(bs) : i < j => ~Overlap(bs[i], bs[j])

\* C30: in an unpaused update(), in either mode, in which no pair of bodies
\* is detected as colliding, every body that was fully inside the play area
\* before the call (r <= x <= WINDOW_WIDTH - r, r <= y <= PLAY_AREA_HEIGHT - r)
\* is fully inside it after the call.
C30_StaysInside ==
    [][(~paused /\ last'.op = "update"
           /\ NoOverlap(AfterFirstLoop(balls, gravity_on))) =>
           \A i \in 1..Len(balls) : Inside(balls[i]) => Inside(balls'[i])]_vars

\* In gravity mode the first update() has run on one body spawned inside the
\* play area and sent into the corner of the left wall and the floor: it
\* is on both boundaries, moving right and up.
C30_Witness ==
    /\ last.op = "update"
    /\ last.hit_left
    /\ gravity_on
    /\ frames = 1
    /\ Len(balls) = 1
    /\ Len(initial_balls) = 1
    /\ initial_balls[1][1] = V(13, 405)
    /\ balls[1].radius = R(MIN_RADIUS)
    /\ balls[1].position = V(MIN_RADIUS, PLAY_AREA_HEIGHT - MIN_RADIUS)
    /\ RGt(balls[1].velocity.x, R(0))
    /\ RLt(balls[1].velocity.y, R(0))

=============================================================================
